---- MODULE Spec2Model ----
(***************************************************************************)
(* Model of main.py: a single-page scraper.  fetch_page_html renders one   *)
(* page in a headless browser, parse_products extracts product records by  *)
(* CSS selector fallbacks, save_to_csv writes them, post_to_discord        *)
(* optionally uploads the file, and main sequences the four.               *)
(*                                                                         *)
(* Text (element text, href values, URLs) is a sequence of one-character   *)
(* strings, so that strip, rstrip, startswith and concatenation are        *)
(* computed as Python computes them.  A document is the sequence of its    *)
(* elements in document (pre-)order; each element names its parent by      *)
(* index (0 = the document root) and carries one text node that precedes   *)
(* its children.                                                           *)
(***************************************************************************)
EXTENDS Integers, Sequences, FiniteSets, TLC

\* Largest number of elements in a document given to parse_products alone.
MaxNodes == 3
\* Largest number of elements in a page fetched by a run of main.
MaxPageNodes == 2

----------------------------------------------------------------------------
(* Python values *)

None == [some |-> FALSE, val |-> <<>>]
Some(v) == [some |-> TRUE, val |-> v]

\* Python truthiness of an optional string: None and "" are falsy.
Truthy(o) == o.some /\ o.val # <<>>

NA == <<"N", "/", "A">>

\* `x or "N/A"`
OrNA(o) == IF Truthy(o) THEN o.val ELSE NA

RECURSIVE lstrip(_)
lstrip(s) == IF s # <<>> /\ Head(s) = " " THEN lstrip(Tail(s)) ELSE s

RECURSIVE rstrip(_, _)
rstrip(s, ch) ==
    IF s # <<>> /\ s[Len(s)] = ch THEN rstrip(SubSeq(s, 1, Len(s) - 1), ch) ELSE s

\* str.strip(): leading and trailing whitespace removed.
strip(s) == rstrip(lstrip(s), " ")

startswith(s, ch) == s # <<>> /\ Head(s) = ch

----------------------------------------------------------------------------
(* Configuration (main.py:10-14) *)

\* Values of TEBEX_URL the runs are checked with.
BaseUrls == { <<"h", ":", "s", "/">>, <<"h", ":", "s">>, <<"h", ":", "s", "/", "/">> }

\* DISCORD_WEBHOOK: unset (None), set to the empty string, or set to a URL.
WebhookValues == { None, Some(<<>>), Some(<<"h", ":", "w">>) }

----------------------------------------------------------------------------
(* Documents *)

Elem(tag, cls, txt, hasHref, href) ==
    [tag |-> tag, cls |-> cls, txt |-> txt, hasHref |-> hasHref, href |-> href, par |-> 0]

\* The elements documents are built from: cards of the first two card
\* classes, name elements (one with whitespace-only text, one that only the
\* card path's name_selectors match), and anchors with a root-relative, an
\* empty, an absolute and no href.  None matches a price selector, so every
\* price is "N/A".
Palette ==
    { Elem("div",  {"package-card"}, <<>>,          FALSE, <<>>),
      Elem("div",  {"package"},      <<"P">>,       FALSE, <<>>),
      Elem("div",  {"package-name"}, <<" ", "A">>,  FALSE, <<>>),
      Elem("span", {"name"},         <<"B">>,       FALSE, <<>>),
      Elem("div",  {"package-title"}, <<" ">>,      FALSE, <<>>),
      Elem("a",    {},               <<>>,          TRUE,  <<"/", "p">>),
      Elem("a",    {},               <<>>,          TRUE,  <<>>),
      Elem("a",    {},               <<>>,          TRUE,  <<"h", ":", "o">>),
      Elem("a",    {},               <<>>,          FALSE, <<>>) }

\* The shapes of a document of n elements: each element's parent, which
\* precedes it (0: the element is at the top).
Shapes(n) == { ps \in [1..n -> 0..(n - 1)] : \A i \in 1..n : ps[i] < i }

\* The document of the elements es in the shape ps.
Doc(n, es, ps) == [i \in 1..n |-> [es[i] EXCEPT !.par = ps[i]]]

\* doc is a document of at most n elements of the palette.
IsDoc(doc, n) ==
    \E k \in 0..n : \E es \in [1..k -> Palette], ps \in Shapes(k) : doc = Doc(k, es, ps)

\* Element i lies strictly inside element c (c = 0: the whole document).
RECURSIVE Inside(_, _, _)
Inside(doc, i, c) ==
    IF c = 0 THEN TRUE
    ELSE IF doc[i].par = 0 THEN FALSE
    ELSE doc[i].par = c \/ Inside(doc, doc[i].par, c)

----------------------------------------------------------------------------
(* CSS selectors: a selector is a sequence of alternatives (a, b, c);      *)
(* an alternative is .class, tag, or tag[attr].                            *)

Class(c) == [kind |-> "class", val |-> c]
Tag(t) == [kind |-> "tag", val |-> t]
TagWithHref(t) == [kind |-> "href", val |-> t]

MatchesSimple(s, e) ==
    CASE s.kind = "class" -> s.val \in e.cls
      [] s.kind = "tag"   -> e.tag = s.val
      [] s.kind = "href"  -> e.tag = s.val /\ e.hasHref

Matches(sel, e) == \E k \in 1..Len(sel) : MatchesSimple(sel[k], e)

\* Tag.select: the matching descendants of c, in document order, each once.
select(doc, sel, c) ==
    SelectSeq([i \in 1..Len(doc) |-> i],
              LAMBDA i : Matches(sel, doc[i]) /\ Inside(doc, i, c))

\* Tag.select_one: the first match, or 0 for None.
select_one(doc, sel, c) ==
    LET m == select(doc, sel, c) IN IF m = <<>> THEN 0 ELSE m[1]

\* Tag.get_text(strip=True): the stripped, non-empty text nodes of the
\* element and its descendants, concatenated in document order.
RECURSIVE TextFrom(_, _, _)
TextFrom(doc, c, i) ==
    IF i > Len(doc) THEN <<>>
    ELSE (IF i = c \/ Inside(doc, i, c) THEN strip(doc[i].txt) ELSE <<>>)
         \o TextFrom(doc, c, i + 1)

get_text(doc, c) == TextFrom(doc, c, c)

----------------------------------------------------------------------------
(* parse_products *)

card_selectors ==
    << <<Class("package-card")>>, <<Class("package")>>,
       <<Class("package-list-item")>>, <<Class("package--card")>> >>

name_selectors ==
    << <<Class("package-name")>>, <<Class("package-title")>>, <<Class("name")>>,
       <<Tag("h3")>>, <<Tag("h2")>> >>

price_selectors ==
    << <<Class("price")>>, <<Class("package-price")>>, <<Class("pkg-price")>>,
       <<Class("price-text")>> >>

\* The fallback scan, had it used name_selectors.
fallback_selector_with_names ==
    << Class("package-name"), Class("package-title"), Class("name"),
       Tag("h3"), Tag("h2") >>

\* The selector of the fallback scan: ".package-name, .package-title, .package".
fallback_selector ==
    << Class("package-name"), Class("package-title"), Class("package") >>

\* The loops over name_selectors and price_selectors: the text of the first
\* selector, from the k-th on, whose first match in card c has non-empty
\* stripped text; None when there is none.
RECURSIVE first_text(_, _, _, _)
first_text(doc, c, sels, k) ==
    IF k > Len(sels) THEN None
    ELSE LET el == select_one(doc, sels[k], c)
         IN  IF el # 0 /\ get_text(doc, el) # <<>>
             THEN Some(get_text(doc, el))
             ELSE first_text(doc, c, sels, k + 1)

\* link_el = c.select_one("a[href]"); link = link_el["href"] if link_el else None
card_href(doc, c) ==
    LET link_el == select_one(doc, <<TagWithHref("a")>>, c)
    IN  IF link_el # 0 THEN Some(doc[link_el].href) ELSE None

\* The base URL joined as it is, trailing slash included.
make_absolute_unstripped(link, base) ==
    IF Truthy(link) /\ startswith(link.val, "/") THEN Some(base \o link.val) ELSE link

\* if link and link.startswith("/"): link = TEBEX_URL.rstrip("/") + link
make_absolute(link, base) ==
    IF Truthy(link) /\ startswith(link.val, "/")
    THEN Some(rstrip(base, "/") \o link.val)
    ELSE link

\* The record appended for card c.
card_record(doc, c, base) ==
    [name  |-> OrNA(first_text(doc, c, name_selectors, 1)),
     price |-> OrNA(first_text(doc, c, price_selectors, 1)),
     link  |-> OrNA(make_absolute(card_href(doc, c), base))]

\* The loop over card_selectors with its break: the matches of the first
\* selector, from the k-th on, that matches anything.
RECURSIVE first_cards(_, _)
first_cards(doc, k) ==
    IF k > Len(card_selectors) THEN <<>>
    ELSE LET cards == select(doc, card_selectors[k], 0)
         IN  IF cards # <<>> THEN cards ELSE first_cards(doc, k + 1)

\* The same loop without its break: every selector's matches, one after another.
RECURSIVE all_cards(_, _)
all_cards(doc, k) ==
    IF k > Len(card_selectors) THEN <<>>
    ELSE select(doc, card_selectors[k], 0) \o all_cards(doc, k + 1)

candidate_cards_unbroken(doc) == all_cards(doc, 1)

candidate_cards(doc) == first_cards(doc, 1)

card_products(doc, base) ==
    LET cards == candidate_cards(doc)
    IN  [k \in 1..Len(cards) |-> card_record(doc, cards[k], base)]

\* names = soup.select(".package-name, .package-title, .package")
fallback_names(doc) == select(doc, fallback_selector, 0)

\* The fallback loop: one record per selected element with non-empty text.
fallback_products(doc) ==
    LET names == SelectSeq(fallback_names(doc), LAMBDA n : get_text(doc, n) # <<>>)
    IN  [k \in 1..Len(names) |->
            [name |-> get_text(doc, names[k]), price |-> NA, link |-> NA]]

parse_products(doc, base) ==
    LET products == card_products(doc, base)
    IN  IF products = <<>> THEN fallback_products(doc) ELSE products

----------------------------------------------------------------------------
(* save_to_csv *)

\* fieldnames=["name", "price", "link"]; writeheader writes them as a line.
header == << <<"n", "a", "m", "e">>, <<"p", "r", "i", "c", "e">>, <<"l", "i", "n", "k">> >>

\* DictWriter.writerow: the record's fields in fieldnames order.
csv_row(it) == <<it.name, it.price, it.link>>

\* The lines of the file after a complete save_to_csv(items, path).
RECURSIVE csv_rows(_)
csv_rows(items) ==
    IF items = <<>> THEN <<>> ELSE <<csv_row(Head(items))>> \o csv_rows(Tail(items))

csv_lines(items) == <<header>> \o csv_rows(items)

----------------------------------------------------------------------------
(* The run of main *)

VARIABLES
    TEBEX_URL,        \* configuration: the page to scrape
    DISCORD_WEBHOOK,  \* configuration: None, or the value of the variable
    site,             \* the document the store serves
    pc,               \* where the run is
    driver,           \* the Playwright driver: "none", "running", "stopped"
    browser,          \* the browser session: "none", "open", "closed"
    html,             \* what fetch_page_html returned
    products,         \* what parse_products returned
    csvOld,           \* products.csv when the process started
    csvFile,          \* products.csv now
    pageFile,         \* page.html now
    outcome,          \* how the run ended, and what the notifier logged
    status,           \* the status code of the webhook's answer, 0 before it
    log               \* the calls and writes of the run, in order

vars == << TEBEX_URL, DISCORD_WEBHOOK, site, pc, driver, browser, html, products,
           csvOld, csvFile, pageFile, outcome, status, log >>

NoFile == [exists |-> FALSE, data |-> <<>>]
File(data) == [exists |-> TRUE, data |-> data]

\* A products.csv left by an earlier run.
OldCsv == File(<< header, << <<"o">>, <<"1">>, NA >> >>)

config == << TEBEX_URL, DISCORD_WEBHOOK, site, csvOld >>

\* The response of the webhook is read by PostResponse alone.
fixed == << config, status >>

Init ==
    /\ TEBEX_URL \in BaseUrls
    /\ DISCORD_WEBHOOK \in WebhookValues
    /\ IsDoc(site, MaxPageNodes)
    /\ csvOld \in { NoFile, OldCsv }
    /\ csvFile = csvOld
    /\ pageFile = NoFile
    /\ pc = "start"
    /\ driver = "none"
    /\ browser = "none"
    /\ html = <<>>
    /\ products = <<>>
    /\ outcome = "running"
    /\ status = 0
    /\ log = <<>>

\* The exception caught and logged, and the run going on.
raise_swallowed(e) ==
    /\ pc' = "extract"
    /\ outcome' = e

\* An exception that nothing catches leaves main: the process dies.
Raise(e) ==
    /\ pc' = "abort"
    /\ outcome' = e

----------------------------------------------------------------------------
(* fetch_page_html *)

\* The with block left without the driver closing its browsers.
with_exit_leaking(b) == b

\* Leaving `with sync_playwright() as p:` stops the driver, which closes
\* every browser it launched.
with_exit(b) == IF b = "open" THEN "closed" ELSE b

\* An exception inside the with block: the block is left, then it propagates.
RaiseInWith(e) ==
    /\ driver' = "stopped"
    /\ browser' = with_exit(browser)
    /\ Raise(e)

\* main calls fetch_page_html, which starts the driver.
StartFetch ==
    /\ pc = "start"
    /\ log' = Append(log, "fetch")
    /\ \/ /\ driver' = "running"
          /\ pc' = "launch"
          /\ UNCHANGED outcome
       \/ /\ Raise("FetchError")
          /\ UNCHANGED driver
    /\ UNCHANGED << fixed, browser, html, products, csvFile, pageFile >>

\* browser = p.chromium.launch(headless=True)
Launch ==
    /\ pc = "launch"
    /\ \/ /\ browser' = "open"
          /\ pc' = "goto"
          /\ UNCHANGED << driver, outcome >>
       \/ RaiseInWith("FetchError")
    /\ UNCHANGED << fixed, html, products, csvFile, pageFile, log >>

\* new_context, new_page, set_extra_http_headers, and
\* page.goto(url, wait_until="networkidle", timeout=60000)
Goto ==
    /\ pc = "goto"
    /\ \/ /\ pc' = "content"
          /\ UNCHANGED << driver, browser, outcome >>
       \/ \E e \in { "FetchTimeout", "FetchError" } : RaiseInWith(e)
    /\ UNCHANGED << fixed, html, products, csvFile, pageFile, log >>

\* html = page.content()
Content ==
    /\ pc = "content"
    /\ \/ /\ html' = site
          /\ pc' = "close"
          /\ UNCHANGED << driver, browser, outcome >>
       \/ /\ RaiseInWith("FetchError")
          /\ UNCHANGED html
    /\ UNCHANGED << fixed, products, csvFile, pageFile, log >>

\* browser.close(), the end of the with block, and the return.
Close ==
    /\ pc = "close"
    /\ browser' = "closed"
    /\ driver' = "stopped"
    /\ pc' = "extract"
    /\ UNCHANGED << fixed, html, products, csvFile, pageFile, outcome, log >>

----------------------------------------------------------------------------
(* main, after the fetch *)

\* main without its `if not products:` branch.
after_extract_always_csv(items) == "csv_open"

\* `if not products:` chooses the diagnostic dump or the CSV.
after_extract(items) == IF items = <<>> THEN "dump" ELSE "csv_open"

\* products = parse_products(html)
Extract ==
    /\ pc = "extract"
    /\ products' = parse_products(html, TEBEX_URL)
    /\ pc' = after_extract(products')
    /\ log' = Append(log, "extract")
    /\ UNCHANGED << fixed, driver, browser, html, csvFile, pageFile, outcome >>

\* with open(OUTPUT_DIR / "page.html", "w") as f: f.write(html); return
Dump ==
    /\ pc = "dump"
    /\ \/ /\ pageFile' = File(html)
          /\ pc' = "done"
          /\ outcome' = "ok"
          /\ log' = Append(log, "page")
       \/ /\ Raise("WriteError")
          /\ UNCHANGED << pageFile, log >>
    /\ UNCHANGED << fixed, driver, browser, html, products, csvFile >>

\* save_to_csv: open(path, "w") truncates the file.
CsvOpen ==
    /\ pc = "csv_open"
    /\ \/ /\ csvFile' = File(<<>>)
          /\ pc' = "csv_header"
          /\ UNCHANGED outcome
       \/ /\ Raise("WriteError")
          /\ UNCHANGED csvFile
    /\ log' = Append(log, "save")
    /\ UNCHANGED << fixed, driver, browser, html, products, pageFile >>

\* writer.writeheader()
CsvHeader ==
    /\ pc = "csv_header"
    /\ \/ /\ csvFile' = File(<<header>>)
          /\ pc' = "csv_row"
          /\ UNCHANGED outcome
       \/ /\ Raise("WriteError")
          /\ UNCHANGED csvFile
    /\ UNCHANGED << fixed, driver, browser, html, products, pageFile, log >>

\* One turn of `for it in items: writer.writerow(it)`; after the last row
\* the file is closed and save_to_csv returns.
CsvRow ==
    /\ pc = "csv_row"
    /\ LET n == Len(csvFile.data)
       IN  \/ /\ csvFile' = File(Append(csvFile.data, csv_row(products[n])))
              /\ IF n = Len(products)
                 THEN pc' = "notify" /\ log' = Append(log, "saved")
                 ELSE pc' = "csv_row" /\ UNCHANGED log
              /\ UNCHANGED outcome
           \/ /\ Raise("WriteError")
              /\ UNCHANGED << csvFile, log >>
    /\ UNCHANGED << fixed, driver, browser, html, products, pageFile >>

\* `if DISCORD_WEBHOOK is not None:`
webhook_set(w) == w.some

\* `if DISCORD_WEBHOOK:`
webhook_configured(w) == Truthy(w)

\* main after save_to_csv returned: the notifier runs only with a webhook.
Notify ==
    /\ pc = "notify"
    /\ IF webhook_configured(DISCORD_WEBHOOK)
       THEN pc' = "post" /\ UNCHANGED outcome
       ELSE pc' = "done" /\ outcome' = "ok"
    /\ UNCHANGED << fixed, driver, browser, html, products, csvFile, pageFile, log >>

StatusCodes == { 200, 204, 404, 500 }

\* `if resp.status_code in (200, 204):`
status_ok(code) == code \in { 200, 204 }

\* main without the try block around post_to_discord.
after_post_exception_uncaught == "abort"

\* `except Exception as e: logging.exception(...)`: main goes on to its end.
after_post_exception == "done"

\* main calls post_to_discord: the file is opened and requests.post sends
\* it, or the import or the open raises before anything is sent.
Post ==
    /\ pc = "post"
    /\ log' = Append(log, "post")
    /\ \/ /\ pc' = "posting"
          /\ UNCHANGED outcome
       \/ /\ pc' = after_post_exception
          /\ outcome' = "exception"
    /\ UNCHANGED << fixed, driver, browser, html, products, csvFile, pageFile >>

\* The server answers: post_to_discord logs and returns, and main ends.
PostResponse ==
    /\ pc = "posting"
    /\ \E code \in StatusCodes :
          /\ status' = code
          /\ outcome' = IF status_ok(code) THEN "posted" ELSE "warning"
    /\ pc' = "done"
    /\ UNCHANGED << config, driver, browser, html, products, csvFile, pageFile, log >>

\* requests.post raises (connection error, timeout of the transport).
PostException ==
    /\ pc = "posting"
    /\ pc' = after_post_exception
    /\ outcome' = "exception"
    /\ UNCHANGED << fixed, driver, browser, html, products, csvFile, pageFile, log >>

Next ==
    \/ StartFetch \/ Launch \/ Goto \/ Content \/ Close
    \/ Extract \/ Dump
    \/ CsvOpen \/ CsvHeader \/ CsvRow
    \/ Notify \/ Post \/ PostResponse \/ PostException

Spec == Init /\ [][Next]_vars

\* The steps the process takes by itself.  The answer to requests.post is the
\* server's: the call sets no timeout, so nothing makes it arrive.
Program ==
    \/ StartFetch \/ Launch \/ Goto \/ Content \/ Close
    \/ Extract \/ Dump
    \/ CsvOpen \/ CsvHeader \/ CsvRow
    \/ Notify \/ Post

FairSpec == Spec /\ WF_vars(Program)

----------------------------------------------------------------------------
(* parse_products and save_to_csv on their own: the run has fetched the     *)
(* page, every document of up to MaxNodes elements is parsed, and the       *)
(* records are saved with no failure of the file system.                    *)

ParseInit ==
    /\ TEBEX_URL \in BaseUrls
    /\ DISCORD_WEBHOOK = None
    /\ IsDoc(site, MaxNodes)
    /\ csvOld = NoFile
    /\ csvFile = NoFile
    /\ pageFile = NoFile
    /\ pc = "extract"
    /\ driver = "stopped"
    /\ browser = "closed"
    /\ html = site
    /\ products = <<>>
    /\ outcome = "running"
    /\ status = 0
    /\ log = <<"fetch">>

\* save_to_csv(products, CSV_PATH), start to end.
SaveToCsv ==
    /\ pc = "csv_open"
    /\ csvFile' = File(csv_lines(products))
    /\ pc' = "notify"
    /\ log' = log \o <<"save", "saved">>
    /\ UNCHANGED << fixed, driver, browser, html, products, pageFile, outcome >>

ParseNext == Extract \/ SaveToCsv

ParseSpec == ParseInit /\ [][ParseNext]_vars

----------------------------------------------------------------------------
(* Properties of the run of main *)

Count(e) == Cardinality({ i \in 1..Len(log) : log[i] = e })
Has(e) == Count(e) > 0
Before(a, b) ==
    \A i, j \in 1..Len(log) : log[i] = a /\ log[j] = b => i < j

Terminal == pc \in { "done", "abort" }

\* C1: in a run whose fetch succeeded and whose extraction is empty,
\* products.csv is never opened and the webhook is never posted to, whatever
\* DISCORD_WEBHOOK holds; the run can only dump the page and end, and when it
\* ends normally page.html holds exactly the HTML that was fetched.
C1_EmptyPath ==
    (Has("extract") /\ products = <<>>) =>
        /\ pc \in { "dump", "done", "abort" }
        /\ ~Has("save") /\ ~Has("saved") /\ ~Has("post")
        /\ csvFile = csvOld
        /\ html = site
        /\ pc = "done" => pageFile = File(site) /\ Has("page")
        /\ pc = "abort" => pageFile = NoFile /\ outcome = "WriteError"

C1_Witness ==
    /\ pc = "done" /\ Has("extract") /\ products = <<>>
    /\ Truthy(DISCORD_WEBHOOK)
    /\ Len(site) = 2 /\ pageFile = File(site)
    /\ csvFile = NoFile

\* C2: the webhook POST is attempted (post_to_discord is called) at most
\* once, only after save_to_csv returned for a non-empty extraction and only with a non-empty
\* DISCORD_WEBHOOK, never in a run that wrote page.html; and a run that has
\* ended attempted it exactly when those three conditions held.
C2_PostIff ==
    /\ Count("post") <= 1
    /\ Has("post") =>
          /\ products # <<>>
          /\ Has("saved") /\ Before("saved", "post")
          /\ csvFile = File(csv_lines(products))
          /\ Truthy(DISCORD_WEBHOOK)
          /\ ~Has("page") /\ pageFile = NoFile
    /\ Terminal =>
          (Has("post") <=>
              (products # <<>> /\ Has("saved") /\ Truthy(DISCORD_WEBHOOK)))

C2_Witness ==
    /\ pc = "done" /\ Has("post") /\ Len(products) = 2
    /\ log = <<"fetch", "extract", "save", "saved", "post">>

\* C3: whatever post_to_discord meets (a 200 or 204, another status, an
\* exception of the transport), main ends in "done" with products.csv as
\* save_to_csv left it; 200 and 204 are logged as success and every other
\* status as a warning.
C3_NotifyNeverAborts ==
    /\ Has("post") =>
          /\ pc \in { "posting", "done" }
          /\ csvFile = File(csv_lines(products))
    /\ outcome \in { "posted", "warning", "exception" } <=> (Has("post") /\ pc = "done")
    /\ outcome = "posted" <=> status \in { 200, 204 }
    /\ outcome = "warning" <=> status \notin { 0, 200, 204 }
    /\ outcome = "exception" => status = 0

C3_Witness ==
    /\ pc = "done" /\ outcome = "exception"
    /\ csvOld = OldCsv /\ csvFile = File(csv_lines(products)) /\ Len(products) = 2

\* C4: once control has left fetch_page_html, by return or by exception, the
\* browser session it opened is closed and the driver is stopped.
C4_BrowserReleased ==
    pc \notin { "start", "launch", "goto", "content", "close" } =>
        /\ browser # "open"
        /\ driver # "running"

C4_Witness ==
    /\ pc = "abort" /\ outcome = "FetchTimeout"
    /\ browser = "closed" /\ driver = "stopped"

\* C5: a failed fetch ends the run with the error: parse_products is never
\* called, products.csv and page.html are as they were, nothing is posted.
C5_FetchFailureFatal ==
    outcome \in { "FetchTimeout", "FetchError" } =>
        /\ pc = "abort"
        /\ log = <<"fetch">>
        /\ products = <<>>
        /\ csvFile = csvOld
        /\ pageFile = NoFile

C5_Witness ==
    /\ pc = "abort" /\ outcome = "FetchTimeout"
    /\ Truthy(DISCORD_WEBHOOK) /\ csvOld = OldCsv /\ csvFile = OldCsv
    /\ Len(site) = 2

\* C6: after save_to_csv failed, products.csv holds either what it held
\* before or the complete new content, header and one row per record.
C6_NoPartialCsv ==
    (outcome = "WriteError" /\ Has("save")) =>
        \/ csvFile = csvOld
        \/ csvFile = File(csv_lines(products))

\* C7: every run of main reaches a terminal state.
C7_Terminates == <>Terminal

----------------------------------------------------------------------------
(* Properties of parse_products and save_to_csv *)

\* The card classes in the order parse_products tries them.
CardClasses == << "package-card", "package", "package-list-item", "package--card" >>

WithClass(doc, c) == { i \in 1..Len(doc) : c \in doc[i].cls }

AnyCard(doc) == \E k \in 1..Len(CardClasses) : WithClass(doc, CardClasses[k]) # {}

\* The elements of the first card class, in that order, that any element has.
FirstCardSet(doc) ==
    LET k == CHOOSE n \in 1..Len(CardClasses) :
                /\ WithClass(doc, CardClasses[n]) # {}
                /\ \A m \in 1..(n - 1) : WithClass(doc, CardClasses[m]) = {}
    IN  WithClass(doc, CardClasses[k])

\* The j-th element of a set of elements in document order.
Nth(S, j) == CHOOSE i \in S : Cardinality({ x \in S : x < i }) = j - 1

Parsed == Has("extract")

\* C8: when some card selector matches, parse_products returns one record
\* per element of the first card class that occurs, in document order and
\* with repetitions kept, nothing for the elements of later classes; and the
\* rows that save_to_csv writes under the header are these records in order.
C8_OneRecordPerCard ==
    (Parsed /\ AnyCard(site)) =>
        \A S \in { FirstCardSet(site) } :
            /\ Len(products) = Cardinality(S)
            /\ \A j \in 1..Len(products) :
                  products[j] = card_record(site, Nth(S, j), TEBEX_URL)
            /\ Has("saved") =>
                  /\ Len(csvFile.data) = Len(products) + 1
                  /\ csvFile.data[1] = header
                  /\ \A j \in 1..Len(products) :
                        csvFile.data[j + 1] =
                            << products[j].name, products[j].price, products[j].link >>

C8_Witness ==
    /\ Has("saved") /\ Len(products) = 2
    /\ Cardinality(WithClass(site, "package-card")) = 2
    /\ Cardinality(WithClass(site, "package")) = 1
    /\ Len(csvFile.data) = 3

\* The anchors with an href attribute inside card c.
Anchors(doc, c) ==
    { i \in 1..Len(doc) : doc[i].tag = "a" /\ doc[i].hasHref /\ Inside(doc, i, c) }

\* The base URL up to its last character that is not a slash.
SlashStripped(b) ==
    LET keep == { n \in 0..Len(b) : \A i \in (n + 1)..Len(b) : b[i] = "/" }
    IN  SubSeq(b, 1, CHOOSE n \in keep : \A m \in keep : n <= m)

\* C9 as claimed: the link of a card's record is "N/A" only when the card
\* holds no anchor with an href; otherwise it is the first such anchor's href,
\* after the base URL when it starts with "/", verbatim for every other value.
C9_LinkVerbatim ==
    (Parsed /\ AnyCard(site)) =>
        \A S \in { FirstCardSet(site) } : \A j \in 1..Len(products) :
            \A A \in { Anchors(site, Nth(S, j)) } :
                IF A = {} THEN products[j].link = NA
                ELSE \A h \in { site[Nth(A, 1)].href } :
                        IF startswith(h, "/")
                        THEN products[j].link = SlashStripped(TEBEX_URL) \o h
                        ELSE products[j].link = h

\* C9 as the code has it: an empty href counts as no link.  The link is
\* "N/A" when the card holds no anchor with an href or the first such anchor's
\* href is empty; otherwise it is that href, after the base URL without its
\* trailing slashes when it starts with "/", verbatim when it does not.
C9_LinkResolved ==
    (Parsed /\ AnyCard(site)) =>
        \A S \in { FirstCardSet(site) } : \A j \in 1..Len(products) :
            \A A \in { Anchors(site, Nth(S, j)) } :
                IF A = {} THEN products[j].link = NA
                ELSE \A h \in { site[Nth(A, 1)].href } :
                        IF h = <<>> THEN products[j].link = NA
                        ELSE IF startswith(h, "/")
                        THEN products[j].link = SlashStripped(TEBEX_URL) \o h
                        ELSE products[j].link = h

C9_Witness ==
    /\ Parsed /\ Len(products) = 1
    /\ TEBEX_URL = <<"h", ":", "s", "/">>
    /\ products[1].link = <<"h", ":", "s", "/", "p">>
    /\ Cardinality(Anchors(site, Nth(FirstCardSet(site), 1))) = 2

\* The records of the elements E of doc that have non-empty stripped text,
\* in document order, each with that text as name and no price or link.
NameRecords(doc, E) ==
    LET T == { i \in E : get_text(doc, i) # <<>> }
        records(S) ==
            [j \in 1..Cardinality(S) |->
                [name |-> get_text(doc, Nth(S, j)), price |-> NA, link |-> NA]]
    IN  records(T)

\* The elements a name selector (.package-name, .package-title, .name, h3,
\* h2) matches.
NameElements(doc) ==
    { i \in 1..Len(doc) :
        \/ doc[i].cls \cap { "package-name", "package-title", "name" } # {}
        \/ doc[i].tag \in { "h3", "h2" } }

\* The elements of class package-name or package-title.
TitleElements(doc) ==
    { i \in 1..Len(doc) : doc[i].cls \cap { "package-name", "package-title" } # {} }

\* C10 as claimed: with no card, the result is the records of the elements
\* that any name selector matches; with cards, it holds card records only.
C10_FallbackNameSelectors ==
    Parsed =>
        IF AnyCard(site)
        THEN Len(products) = Cardinality(FirstCardSet(site))
        ELSE products = NameRecords(site, NameElements(site))

\* C10 as the code has it: the fallback scan runs only when no card selector
\* matched, and then returns, in document order, one record per element of
\* class package-name or package-title with non-empty stripped text (name:
\* that text, price and link "N/A"), the empty list when there is none; when
\* a card selector matched, the result holds the card records and no other.
C10_FallbackScan ==
    Parsed =>
        IF AnyCard(site)
        THEN \A S \in { FirstCardSet(site) } :
                /\ Len(products) = Cardinality(S)
                /\ \A j \in 1..Len(products) :
                      products[j].name =
                          OrNA(first_text(site, Nth(S, j), name_selectors, 1))
        ELSE /\ products = NameRecords(site, TitleElements(site))
             /\ products = <<>> => pc = "dump"

C10_Witness ==
    /\ Parsed /\ ~AnyCard(site)
    /\ Len(products) = 2
    /\ \E i \in TitleElements(site) : get_text(site, i) = <<>>

====
